---- MODULE Spec2Model ----
(***************************************************************************)
(* A model of the layout optimizer of the garage layout planner            *)
(* (src/Garage_Optimizer.py): constraint generation, demand planning, the  *)
(* greedy placement loop, the overhead pass and the score.                 *)
(*                                                                         *)
(* Lengths are inches. The inputs are whole, even numbers of inches, so    *)
(* that every division by two of the code (the centred vehicle candidate,  *)
(* half a feature's width) is exact and Python's floats are integers here. *)
(* A Python dict is a function whose DOMAIN is the set of its keys; None   *)
(* and an empty result are the empty sequence.                             *)
(***************************************************************************)
EXTENDS Integers, Sequences, FiniteSets, TLC

VARIABLES
    garage,         \* GarageSpace: the input geometry
    profile,        \* UsageProfile: the input usage profile
    pc,             \* position in optimize_layout
    recommendation, \* LayoutRecommendation being built
    zones_needed,   \* the demand list (sorted once planned)
    i,              \* 1-based index of the next demand of the placement loop
    placed_zones,   \* zones placed so far by the placement loop
    outcome,        \* history: outcome[k] is TRUE iff demand k was placed
    run,            \* which run on this input this is (1 or 2)
    first,          \* the result of the first run, once a second one started
    overlap_call    \* a call of rectangles_overlap: <<a, b>>, then <<a, b, answer>>

vars == <<garage, profile, pc, recommendation, zones_needed, i, placed_zones,
          outcome, run, first, overlap_call>>

(***************************************************************************)
(* Bounds of the model.                                                    *)
(***************************************************************************)
MaxVehicles == 2
MaxActivities == 1
MaxCategories == 2

\* The rectangles of the calls of rectangles_overlap on their own: corners
\* in 0..MaxCoord, sides in 0..MaxSide.
MaxCoord == 2

MaxSide == 2

(***************************************************************************)
(* Generic helpers.                                                        *)
(***************************************************************************)
\* dict.get(key, default)
Get(d, k, default) == IF k \in DOMAIN d THEN d[k] ELSE default

Max(a, b) == IF a >= b THEN a ELSE b

Min(a, b) == IF a <= b THEN a ELSE b

\* All sequences over S of length at most n.
SeqsUpTo(S, n) == UNION {[1..k -> S] : k \in 0..n}

\* The number of elements of s that satisfy Test.
Count(s, Test(_)) == Len(SelectSeq(s, Test))

\* The ZoneType enum.
VEHICLE == "vehicle"

WORKBENCH == "workbench"

WALL_STORAGE == "wall_storage"

OVERHEAD_STORAGE == "overhead_storage"

\* str.lower() on the strings the inputs use.
Lower(s) ==
    CASE s = "Garage Door" -> "garage door"
      [] s = "Entry Door" -> "entry door"
      [] s = "Electrical Panel" -> "electrical panel"
      [] s = "Sub Panel" -> "sub panel"
      [] s = "Window" -> "window"
      [] s = "Water Heater" -> "water heater"
      [] s = "Outlet" -> "outlet"
      [] s = "Medium" -> "medium"
      [] s = "LARGE" -> "large"
      [] OTHER -> s

\* The substring test  sub in s  on the strings the inputs use.
Contains(s, sub) ==
    \/ s = sub
    \/ <<sub, s>> \in {<<"garage_door", "double_garage_door">>,
                       <<"electrical", "electrical panel">>,
                       <<"panel", "electrical panel">>,
                       <<"panel", "sub panel">>,
                       <<"panel", "electrical_panel">>,
                       <<"electrical", "electrical_panel">>,
                       <<"door", "garage door">>,
                       <<"door", "entry door">>}

(***************************************************************************)
(* Measurement strings. A measurement is [feet, inches] for a string such  *)
(* as 16' 6", [inches] for 78", [plain] for a bare number such as 180 and  *)
(* [text] for anything else ("N/A", "").                                   *)
(***************************************************************************)
measurement_to_inches(m) ==
    IF "text" \in DOMAIN m
    THEN <<>>
    ELSE LET feet == IF "feet" \in DOMAIN m THEN m.feet * 12 ELSE 0
             inch == IF "inches" \in DOMAIN m THEN m.inches ELSE 0
             total == IF "feet" \in DOMAIN m \/ "inches" \in DOMAIN m
                      THEN feet + inch
                      ELSE Get(m, "plain", 0)
         IN  IF total > 0 THEN <<total>> ELSE <<>>

\* Python's  value or default  on an Optional[float].
OrDefault(opt, default) == IF opt = <<>> THEN default ELSE opt[1]

\* The feet/inches string of a whole number of inches, as its parts.
inches_to_feet_str(inches) ==
    LET feet == inches \div 12
        remaining == inches % 12
    IN  IF remaining = 0 THEN [form |-> "ft", feet |-> feet, inches |-> 0]
        ELSE IF feet = 0 THEN [form |-> "in", feet |-> 0, inches |-> remaining]
        ELSE [form |-> "ft in", feet |-> feet, inches |-> remaining]

(***************************************************************************)
(* Layout constants.                                                       *)
(***************************************************************************)
CLEARANCES ==
    [garage_door |-> 36, entry_door |-> 36, service_door |-> 36,
     electrical_panel |-> 36, water_heater |-> 24, furnace |-> 24,
     window |-> 6, vehicle_side |-> 24, vehicle_front |-> 12,
     vehicle_rear |-> 12, workbench_front |-> 36, walkway |-> 30]

ZONE_SIZES ==
    [workbench_small |-> [width |-> 48, depth |-> 24],
     workbench_medium |-> [width |-> 72, depth |-> 30],
     workbench_large |-> [width |-> 96, depth |-> 30],
     wall_storage_section |-> [width |-> 48, depth |-> 18],
     overhead_storage |-> [width |-> 48, depth |-> 96]]

(***************************************************************************)
(* Collision predicates.                                                   *)
(***************************************************************************)
\* A variant of rectangles_overlap for which touching edges overlap.
rectangles_overlap_closed(x1, y1, w1, h1, x2, y2, w2, h2) ==
    ~(x1 + w1 < x2 \/ x2 + w2 < x1 \/ y1 + h1 < y2 \/ y2 + h2 < y1)

rectangles_overlap(x1, y1, w1, h1, x2, y2, w2, h2) ==
    ~(x1 + w1 <= x2 \/ x2 + w2 <= x1 \/ y1 + h1 <= y2 \/ y2 + h2 <= y1)

InBounds(x, y, width, depth, g) ==
    ~(x < 0 \/ y < 0) /\ ~(x + width > g.width \/ y + depth > g.depth)

position_is_clear(x, y, width, depth, g, constraints, placed) ==
    /\ InBounds(x, y, width, depth, g)
    /\ \A k \in 1..Len(constraints) :
          ~rectangles_overlap(x, y, width, depth, constraints[k].x,
                              constraints[k].y, constraints[k].width,
                              constraints[k].depth)
    /\ \A k \in 1..Len(placed) :
          ~rectangles_overlap(x, y, width, depth, placed[k].x, placed[k].y,
                              placed[k].width, placed[k].depth)

(***************************************************************************)
(* Constraint generation.                                                  *)
(***************************************************************************)
\* A variant of FeatureConstraint without the special case of garage doors.
FeatureConstraintByTable(feature, wall, g) ==
    LET pos == Get(feature, "position", 0)
        width == Get(feature, "width", 36)
        name == Get(feature, "name", "Unknown")
        ftype == Lower(Get(feature, "type", ""))
        clearance == Get(CLEARANCES, ftype, 24)
        x0 == CASE wall = "N" -> pos - width \div 2
                [] wall = "S" -> pos - width \div 2
                [] wall = "E" -> g.width - clearance
                [] wall = "W" -> 0
        y0 == CASE wall = "N" -> 0
                [] wall = "S" -> g.depth - clearance
                [] wall = "E" -> pos - width \div 2
                [] wall = "W" -> pos - width \div 2
    IN  [constraint_type |-> ftype,
         x |-> Max(0, x0),
         y |-> Max(0, y0),
         width |-> IF wall \in {"N", "S"} THEN width ELSE clearance,
         depth |-> IF wall \in {"N", "S"} THEN clearance ELSE width,
         wall |-> wall,
         description |-> [name |-> name, clear |-> inches_to_feet_str(clearance)]]

\* A variant of FeatureConstraint that keeps negative coordinates.
FeatureConstraintUnclamped(feature, wall, g) ==
    LET c == FeatureConstraintByTable(feature, wall, g)
        pos == Get(feature, "position", 0)
        width == Get(feature, "width", 36)
    IN  [c EXCEPT !.x = IF wall \in {"N", "S"} THEN pos - width \div 2 ELSE c.x,
                  !.y = IF wall \in {"E", "W"} THEN pos - width \div 2 ELSE c.y]

\* The Constraint of one wall feature (one iteration of add_wall_constraints).
FeatureConstraint(feature, wall, g) ==
    LET pos == Get(feature, "position", 0)
        width == Get(feature, "width", 36)
        name == Get(feature, "name", "Unknown")
        ftype == Lower(Get(feature, "type", ""))
        clearance == Get(CLEARANCES, ftype, 24)
        x0 == CASE wall = "N" -> pos - width \div 2
                [] wall = "S" -> pos - width \div 2
                [] wall = "E" -> g.width - clearance
                [] wall = "W" -> 0
        y0 == CASE wall = "N" -> 0
                [] wall = "S" -> g.depth - clearance
                [] wall = "E" -> pos - width \div 2
                [] wall = "W" -> pos - width \div 2
        c_width == IF wall \in {"N", "S"} THEN width ELSE clearance
        c_depth0 == IF wall \in {"N", "S"} THEN clearance ELSE width
        is_garage_door == \/ Contains(ftype, "garage_door")
                          \/ Contains(Lower(name), "garage door")
        c_depth == IF is_garage_door /\ wall \in {"S", "N"} THEN 60 ELSE c_depth0
        y == IF is_garage_door /\ wall = "S" THEN g.depth - c_depth
             ELSE IF is_garage_door /\ wall = "N" THEN 0
             ELSE y0
    IN  [constraint_type |-> ftype,
         x |-> Max(0, x0),
         y |-> Max(0, y),
         width |-> c_width,
         depth |-> c_depth,
         wall |-> wall,
         description |-> [name |-> name, clear |-> inches_to_feet_str(clearance)]]

add_wall_constraints(features, wall, g) ==
    [k \in 1..Len(features) |-> FeatureConstraint(features[k], wall, g)]

generate_constraints(g) ==
    add_wall_constraints(g.north_features, "N", g)
        \o add_wall_constraints(g.east_features, "E", g)
        \o add_wall_constraints(g.south_features, "S", g)
        \o add_wall_constraints(g.west_features, "W", g)

(***************************************************************************)
(* Demand planning (optimize_layout, step 2).                              *)
(***************************************************************************)
MustFit(v) == Get(v, "must_fit_inside", FALSE)

vehicles_must_fit(p) == SelectSeq(p.vehicles, MustFit)

\* A zone name: a text and, for f"Wall Storage {i+1}", its number (else 0).
Name(text, n) == [text |-> text, n |-> n]

\* f"{year} {make} {model}".strip(); the inputs give at most a model.
VehicleName(v) == Name(Get(v, "model", ""), 0)

\* A variant of side_clearance that doubles the clearance for every vehicle.
side_clearance_doubled(num_vehicles) == CLEARANCES["vehicle_side"] * 2

\* Clearance on both sides of a single car, on one side of each of several.
side_clearance(num_vehicles) ==
    IF num_vehicles = 1
    THEN CLEARANCES["vehicle_side"] * 2
    ELSE CLEARANCES["vehicle_side"]

VehicleDemand(p, k) ==
    LET vehicle == vehicles_must_fit(p)[k]
        num_vehicles == Len(vehicles_must_fit(p))
        v_length == OrDefault(measurement_to_inches(
                        Get(vehicle, "length", [plain |-> 180])), 180)
        v_width == OrDefault(measurement_to_inches(
                        Get(vehicle, "width", [plain |-> 72])), 72)
    IN  [type |-> VEHICLE,
         name |-> VehicleName(vehicle),
         width |-> v_width + side_clearance(num_vehicles),
         depth |-> v_length + CLEARANCES["vehicle_front"]
                      + CLEARANCES["vehicle_rear"],
         priority |-> Get(p.priorities, "vehicle_storage", 3),
         vehicle_index |-> k - 1,
         total_vehicles |-> num_vehicles]

VehicleDemands(p) ==
    [k \in 1..Len(vehicles_must_fit(p)) |-> VehicleDemand(p, k)]

NeedsMediumOrLarge(a) ==
    Lower(Get(a, "space_needed", "")) \in {"medium", "large"}

needs_large(p) == Count(p.work_activities, NeedsMediumOrLarge) > 0

\* A variant of WorkbenchSize whose large tier always needs an activity.
WorkbenchSizeByActivity(p) ==
    LET workspace_priority == Get(p.priorities, "workspace", 3)
    IN  IF workspace_priority >= 4 /\ needs_large(p)
        THEN ZONE_SIZES["workbench_large"]
        ELSE IF needs_large(p) \/ workspace_priority >= 4
        THEN ZONE_SIZES["workbench_medium"]
        ELSE ZONE_SIZES["workbench_small"]

WorkbenchSize(p) ==
    LET workspace_priority == Get(p.priorities, "workspace", 3)
    IN  IF workspace_priority >= 5 \/ (workspace_priority >= 4 /\ needs_large(p))
        THEN ZONE_SIZES["workbench_large"]
        ELSE IF needs_large(p) \/ workspace_priority >= 4
        THEN ZONE_SIZES["workbench_medium"]
        ELSE ZONE_SIZES["workbench_small"]

WorkbenchDemands(p) ==
    IF p.work_activities # <<>> \/ Get(p.priorities, "workspace", 0) >= 3
    THEN << [type |-> WORKBENCH,
             name |-> Name("Workbench", 0),
             width |-> WorkbenchSize(p).width,
             depth |-> WorkbenchSize(p).depth + CLEARANCES["workbench_front"],
             priority |-> Get(p.priorities, "workspace", 3)] >>
    ELSE <<>>

IsDaily(s) == Get(s, "needs_accessibility", "") = "daily"

IsWeekly(s) == Get(s, "needs_accessibility", "") = "weekly"

base_sections(p) ==
    2 + Len(p.storage_categories) + Count(p.storage_categories, IsDaily) * 2
      + Count(p.storage_categories, IsWeekly)

\* int(base_sections * 1.5)
IntOneAndAHalf(n) == (n * 3) \div 2

\* A variant of sections_needed without the priority-5 override.
sections_needed_no_override(p) ==
    LET storage_priority == Get(p.priorities, "general_storage", 3)
    IN  IF storage_priority >= 4 THEN Min(15, IntOneAndAHalf(base_sections(p)))
        ELSE Min(8, base_sections(p))

sections_needed(p) ==
    LET storage_priority == Get(p.priorities, "general_storage", 3)
    IN  IF storage_priority >= 5 THEN 20
        ELSE IF storage_priority >= 4 THEN Min(15, IntOneAndAHalf(base_sections(p)))
        ELSE Min(8, base_sections(p))

WallStorageDemands(p) ==
    IF Get(p.preferences, "wall_storage", TRUE)
    THEN [k \in 1..sections_needed(p) |->
             [type |-> WALL_STORAGE,
              name |-> Name("Wall Storage", k),
              width |-> ZONE_SIZES["wall_storage_section"].width,
              depth |-> ZONE_SIZES["wall_storage_section"].depth,
              priority |-> Get(p.priorities, "general_storage", 3)]]
    ELSE <<>>

\* The demands in generation order, before the sort.
GeneratedDemands(p) ==
    VehicleDemands(p) \o WorkbenchDemands(p) \o WallStorageDemands(p)

\* A variant of Insert that puts d ahead of the elements of its own priority:
\* a sort that reverses ties.
RECURSIVE InsertAheadOfTies(_, _)
InsertAheadOfTies(s, d) ==
    IF s = <<>> THEN <<d>>
    ELSE IF s[Len(s)].priority > d.priority THEN Append(s, d)
    ELSE Append(InsertAheadOfTies(SubSeq(s, 1, Len(s) - 1), d), s[Len(s)])

\* list.sort(key=priority, reverse=True): stable, descending. Insert puts d
\* behind every element of the sorted s whose priority is at least d's.
RECURSIVE Insert(_, _)
Insert(s, d) ==
    IF s = <<>> THEN <<d>>
    ELSE IF s[Len(s)].priority >= d.priority THEN Append(s, d)
    ELSE Append(Insert(SubSeq(s, 1, Len(s) - 1), d), s[Len(s)])

RECURSIVE SortByPriorityDesc(_)
SortByPriorityDesc(s) ==
    IF s = <<>> THEN <<>>
    ELSE Insert(SortByPriorityDesc(SubSeq(s, 1, Len(s) - 1)), s[Len(s)])

(***************************************************************************)
(* Placement strategies. A strategy returns <<>> for None.                 *)
(***************************************************************************)
IsVehicle(z) == z.zone_type = VEHICLE

\* A variant of positions_to_try that tries the left candidate of a single
\* vehicle first.
positions_to_try_left_first(g, placed, width, depth, zone_spec) ==
    LET total_vehicles == Get(zone_spec, "total_vehicles", 1)
        placed_vehicles == SelectSeq(placed, IsVehicle)
    IN  IF total_vehicles = 1
        THEN << <<CLEARANCES["walkway"], g.depth - depth>>,
                <<(g.width - width) \div 2, g.depth - depth>>,
                <<g.width - width - CLEARANCES["walkway"], g.depth - depth>> >>
        ELSE IF placed_vehicles = <<>>
        THEN << <<CLEARANCES["walkway"], g.depth - depth>> >>
        ELSE LET last_vehicle == placed_vehicles[Len(placed_vehicles)]
             IN  << <<last_vehicle.x + last_vehicle.width + 12, g.depth - depth>> >>

\* A variant of positions_to_try that leaves no gap between two vehicles.
positions_to_try_no_gap(g, placed, width, depth, zone_spec) ==
    LET total_vehicles == Get(zone_spec, "total_vehicles", 1)
        placed_vehicles == SelectSeq(placed, IsVehicle)
    IN  IF total_vehicles = 1
        THEN << <<(g.width - width) \div 2, g.depth - depth>>,
                <<CLEARANCES["walkway"], g.depth - depth>>,
                <<g.width - width - CLEARANCES["walkway"], g.depth - depth>> >>
        ELSE IF placed_vehicles = <<>>
        THEN << <<CLEARANCES["walkway"], g.depth - depth>> >>
        ELSE LET last_vehicle == placed_vehicles[Len(placed_vehicles)]
             IN  << <<last_vehicle.x + last_vehicle.width, g.depth - depth>> >>

\* The candidate positions of a vehicle, in the order they are tried.
positions_to_try(g, placed, width, depth, zone_spec) ==
    LET total_vehicles == Get(zone_spec, "total_vehicles", 1)
        placed_vehicles == SelectSeq(placed, IsVehicle)
    IN  IF total_vehicles = 1
        THEN << <<(g.width - width) \div 2, g.depth - depth>>,
                <<CLEARANCES["walkway"], g.depth - depth>>,
                <<g.width - width - CLEARANCES["walkway"], g.depth - depth>> >>
        ELSE IF placed_vehicles = <<>>
        THEN << <<CLEARANCES["walkway"], g.depth - depth>> >>
        ELSE LET last_vehicle == placed_vehicles[Len(placed_vehicles)]
             IN  << <<last_vehicle.x + last_vehicle.width + 12, g.depth - depth>> >>

\* The test of one vehicle candidate: in bounds, no constraint but a garage
\* door's overlapped, no placed zone overlapped.
VehicleCandidateOk(x, y, width, depth, g, constraints, placed) ==
    /\ InBounds(x, y, width, depth, g)
    /\ \A k \in 1..Len(constraints) :
          rectangles_overlap(x, y, width, depth, constraints[k].x,
                             constraints[k].y, constraints[k].width,
                             constraints[k].depth)
              => Contains(constraints[k].constraint_type, "garage_door")
    /\ \A k \in 1..Len(placed) :
          ~rectangles_overlap(x, y, width, depth, placed[k].x, placed[k].y,
                              placed[k].width, placed[k].depth)

find_vehicle_position(g, constraints, placed, width, depth, zone_spec) ==
    LET cands == positions_to_try(g, placed, width, depth, zone_spec)
        ok == {k \in 1..Len(cands) :
                  VehicleCandidateOk(cands[k][1], cands[k][2], width, depth,
                                     g, constraints, placed)}
    IN  IF ok = {} THEN <<>>
        ELSE cands[CHOOSE k \in ok : \A m \in ok : k <= m]

IsElectrical(f) ==
    \/ Contains(Lower(Get(f, "name", "")), "electrical")
    \/ Contains(Lower(Get(f, "name", "")), "panel")

\* A variant of walls_to_check that ignores the electrical panel.
walls_to_check_north_first(g) == <<"N", "E", "W">>

\* walls_to_check after the stable sort that puts walls with electrical first.
walls_to_check(g) ==
    IF Count(g.east_features, IsElectrical) > 0
    THEN <<"E", "N", "W">>
    ELSE <<"N", "E", "W">>

\* The rectangle <<x, y, w, d>> tested for the workbench on a wall.
WorkbenchRect(wall, g, width, depth) ==
    CASE wall = "N" -> <<CLEARANCES["walkway"], 0, width, depth>>
      [] wall = "E" -> <<g.width - depth, CLEARANCES["walkway"], depth, width>>
      [] wall = "W" -> <<0, CLEARANCES["walkway"], depth, width>>

find_best_wall_for_workbench(g, constraints, placed, width, depth) ==
    LET walls == walls_to_check(g)
        Fits(k) == LET r == WorkbenchRect(walls[k], g, width, depth)
                   IN  position_is_clear(r[1], r[2], r[3], r[4], g,
                                         constraints, placed)
        ok == {k \in 1..Len(walls) : Fits(k)}
    IN  IF ok = {} THEN <<>>
        ELSE LET k == CHOOSE k \in ok : \A m \in ok : k <= m
                 r == WorkbenchRect(walls[k], g, width, depth)
             IN  <<walls[k], r[1], r[2]>>

\* wall_counts[wall]
WallCount(placed, wall) ==
    Cardinality({k \in 1..Len(placed) :
                    placed[k].zone_type = WALL_STORAGE /\ placed[k].wall = wall})

\* sorted(["N", "E", "W"], key=wall_counts): stable, ascending.
WallsByCount(placed) ==
    LET base == <<"N", "E", "W">>
        Before(a, b) == \/ WallCount(placed, base[a]) < WallCount(placed, base[b])
                        \/ /\ WallCount(placed, base[a]) = WallCount(placed, base[b])
                           /\ a < b
        Rank(a) == 1 + Cardinality({b \in 1..3 : Before(b, a)})
    IN  [r \in 1..3 |-> base[CHOOSE a \in 1..3 : Rank(a) = r]]

\* range(0, stop, step)
Range(stop, step) == {n \in 0..(stop - 1) : n % step = 0}

\* The rectangle <<x, y, w, d>> tested for a storage section at offset t of a wall.
StorageRect(wall, t, g, width, depth) ==
    CASE wall = "N" -> <<t, 0, width, depth>>
      [] wall = "E" -> <<g.width - depth, t, depth, width>>
      [] wall = "W" -> <<0, t, depth, width>>

\* The scan of one wall: the first clear offset, as <<wall, x, y>>, or <<>>.
ScanWall(wall, step, g, constraints, placed, width, depth) ==
    LET stop == IF wall = "N" THEN g.width - width ELSE g.depth - width
        Clear(t) == LET r == StorageRect(wall, t, g, width, depth)
                    IN  position_is_clear(r[1], r[2], r[3], r[4], g,
                                          constraints, placed)
        ok == {t \in Range(stop, step) : Clear(t)}
    IN  IF ok = {} THEN <<>>
        ELSE LET t == CHOOSE t \in ok : \A u \in ok : t <= u
                 r == StorageRect(wall, t, g, width, depth)
             IN  <<wall, r[1], r[2]>>

\* The first wall of walls (in order) whose scan finds a spot, or <<>>.
ScanWalls(walls, step, g, constraints, placed, width, depth) ==
    LET Hit(k) == ScanWall(walls[k], step, g, constraints, placed, width, depth)
        ok == {k \in 1..Len(walls) : Hit(k) # <<>>}
    IN  IF ok = {} THEN <<>>
        ELSE Hit(CHOOSE k \in ok : \A m \in ok : k <= m)

find_wall_storage_spot(g, constraints, placed, width, depth) ==
    LET firstPass == ScanWalls(WallsByCount(placed), 24, g, constraints,
                               placed, width, depth)
    IN  IF firstPass # <<>> THEN firstPass
        ELSE ScanWalls(<<"N", "E", "W">>, 12, g, constraints, placed,
                       width, depth)

\* The Zone place_zone builds from a strategy's answer.
MakeZone(zone_spec, x, y, wall) ==
    [zone_type |-> zone_spec.type,
     name |-> zone_spec.name,
     x |-> x,
     y |-> y,
     width |-> zone_spec.width,
     depth |-> zone_spec.depth,
     wall |-> wall,
     priority |-> Get(zone_spec, "priority", 3)]

\* place_zone: <<zone>> or <<>> for None.
place_zone(zone_spec, g, constraints, placed) ==
    LET width == zone_spec.width
        depth == zone_spec.depth
    IN  CASE zone_spec.type = VEHICLE ->
               LET best_pos == find_vehicle_position(g, constraints, placed,
                                                     width, depth, zone_spec)
               IN  IF best_pos # <<>>
                   THEN <<MakeZone(zone_spec, best_pos[1], best_pos[2], "S")>>
                   ELSE <<>>
          [] zone_spec.type = WORKBENCH ->
               LET best_wall == find_best_wall_for_workbench(g, constraints,
                                                             placed, width, depth)
               IN  IF best_wall # <<>>
                   THEN <<MakeZone(zone_spec, best_wall[2], best_wall[3],
                                   best_wall[1])>>
                   ELSE <<>>
          [] zone_spec.type = WALL_STORAGE ->
               LET best_spot == find_wall_storage_spot(g, constraints, placed,
                                                       width, depth)
               IN  IF best_spot # <<>>
                   THEN <<MakeZone(zone_spec, best_spot[2], best_spot[3],
                                   best_spot[1])>>
                   ELSE <<>>
          [] OTHER -> <<>>

(***************************************************************************)
(* The overhead pass (optimize_layout, step 4) and the score (step 5).     *)
(***************************************************************************)
IsWorkbench(z) == z.zone_type = WORKBENCH

\* overhead_locations: the candidate platforms, in order.
overhead_locations(g, placed) ==
    LET overhead_depth == 48
        workbench_zones == SelectSeq(placed, IsWorkbench)
        wb_end_x == IF workbench_zones # <<>>
                    THEN workbench_zones[1].x + workbench_zones[1].width + 24
                    ELSE 0
        north == IF wb_end_x < g.width - 96
                 THEN << [name |-> Name("Overhead Storage - North", 0),
                          x |-> wb_end_x,
                          y |-> 0,
                          width |-> Min(g.width - wb_end_x - 24, 144),
                          depth |-> overhead_depth] >>
                 ELSE <<>>
        vehicle_zones == SelectSeq(placed, IsVehicle)
        west_overhead_depth == Min(vehicle_zones[1].y - 24, 120)
        west == IF vehicle_zones # <<>> /\ west_overhead_depth > 48
                THEN << [name |-> Name("Overhead Storage - West", 0),
                         x |-> 0,
                         y |-> 72,
                         width |-> overhead_depth,
                         depth |-> west_overhead_depth] >>
                ELSE <<>>
        east == << [name |-> Name("Overhead Storage - East", 0),
                    x |-> g.width - overhead_depth,
                    y |-> 48,
                    width |-> overhead_depth,
                    depth |-> 96] >>
    IN  north \o west \o east

\* The minimum useful size of a platform.
Useful(loc) == loc.width > 36 /\ loc.depth > 36

OverheadZone(loc, p) ==
    [zone_type |-> OVERHEAD_STORAGE,
     name |-> loc.name,
     x |-> loc.x,
     y |-> loc.y,
     width |-> loc.width,
     depth |-> loc.depth,
     wall |-> "ceiling",
     priority |-> Get(p.priorities, "general_storage", 3)]

\* The reasoning string of a placed zone and of an overhead platform, as parts.
PlacedReasoning(zone) ==
    [name |-> zone.name,
     wall |-> IF zone.wall = "" THEN "floor" ELSE zone.wall,
     a |-> inches_to_feet_str(zone.x),
     b |-> inches_to_feet_str(zone.y)]

OverheadReasoning(loc) ==
    [name |-> loc.name,
     wall |-> "ceiling height allows",
     a |-> inches_to_feet_str(loc.width),
     b |-> inches_to_feet_str(loc.depth)]

\* A variant of OverheadEnabled that ignores the ceiling height.
OverheadEnabledAnyCeiling(g, p) == Get(p.preferences, "overhead_storage", FALSE)

\* Whether the overhead pass runs at all.
OverheadEnabled(g, p) ==
    Get(p.preferences, "overhead_storage", FALSE) /\ g.ceiling_height >= 96

\* A variant of OverheadAccepted that drops a platform over a placed zone.
OverheadAcceptedClear(g, p, placed) ==
    LET Clear(loc) ==
            /\ Useful(loc)
            /\ \A z \in 1..Len(placed) :
                  ~rectangles_overlap(loc.x, loc.y, loc.width, loc.depth,
                                      placed[z].x, placed[z].y,
                                      placed[z].width, placed[z].depth)
    IN  IF OverheadEnabled(g, p)
        THEN SelectSeq(overhead_locations(g, placed), Clear)
        ELSE <<>>

\* The platforms the pass adds, in order.
OverheadAccepted(g, p, placed) ==
    IF OverheadEnabled(g, p)
    THEN SelectSeq(overhead_locations(g, placed), Useful)
    ELSE <<>>

\* A variant of calculate_layout_score that does not clamp the score.
calculate_layout_score_unclamped(rec, p) ==
    LET vehicle_placed == Count(rec.zones, IsVehicle) > 0
        workbench_placed == Count(rec.zones, IsWorkbench) > 0
    IN  100 - Len(rec.warnings) * 15
        + (IF vehicle_placed /\ Get(p.priorities, "vehicle_storage", 0) >= 4
           THEN 10 ELSE 0)
        + (IF workbench_placed /\ Get(p.priorities, "workspace", 0) >= 4
           THEN 10 ELSE 0)

calculate_layout_score(rec, p) ==
    LET vehicle_placed == Count(rec.zones, IsVehicle) > 0
        workbench_placed == Count(rec.zones, IsWorkbench) > 0
        score == 100 - Len(rec.warnings) * 15
                 + (IF vehicle_placed /\ Get(p.priorities, "vehicle_storage", 0) >= 4
                    THEN 10 ELSE 0)
                 + (IF workbench_placed /\ Get(p.priorities, "workspace", 0) >= 4
                    THEN 10 ELSE 0)
    IN  Max(0, Min(100, score))

(***************************************************************************)
(* The inputs: garages and usage profiles.                                 *)
(***************************************************************************)
Feature(name, type, position, width) ==
    [name |-> name, type |-> type, position |-> position, width |-> width]

Features(n, e, s, w, f) ==
    [north_features |-> n, east_features |-> e, south_features |-> s,
     west_features |-> w, floor_features |-> f]

NoFeatures == Features(<<>>, <<>>, <<>>, <<>>, <<>>)

PanelAndWindow ==
    Features(<<>>, <<Feature("Electrical Panel", "electrical_panel", 150, 24)>>,
             <<>>, <<Feature("Window", "window", 60, 36)>>, <<>>)

\* A feature of width 0 on the east wall.
ZeroWidthOutlet ==
    Features(<<>>, <<Feature("Outlet", "outlet", 100, 0)>>, <<>>, <<>>, <<>>)

\* Features that leave the north and east walls free only at offsets that are
\* odd multiples of 12 once a section stands in the north-west corner, and
\* that block the west wall.
OffsetFeatures ==
    Features(<<Feature("Outlet", "outlet", 54, 12)>>,
             <<Feature("Window", "window", 4, 12),
               Feature("Window", "window", 66, 12)>>,
             <<>>,
             <<Feature("Window", "window", 69, 102)>>, <<>>)

FeatureConfigs ==
    { NoFeatures,
      PanelAndWindow,
      ZeroWidthOutlet,
      Features(<<>>, <<>>, <<Feature("Garage Door", "garage_door", 150, 192)>>,
               <<>>, <<>>),
      Features(<<>>, <<>>, <<Feature("Service Door", "service_door", 180, 36)>>,
               <<>>, <<>>),
      Features(<<>>, <<>>, <<Feature("Entry Door", "entry_door", 100, 36)>>,
               <<>>, <<>>),
      Features(<<Feature("Entry Door", "entry_door", 36, 36)>>, <<>>, <<>>,
               <<>>, <<>>),
      Features(<<>>, <<Feature("Garage Door", "garage_door", 120, 192)>>, <<>>,
               <<Feature("Garage Door", "double_garage_door", 120, 192)>>,
               <<>>),
      Features(<<Feature("Garage Door", "garage_door", 150, 192)>>, <<>>,
               <<Feature("Water Heater", "water_heater", 280, 24),
                 Feature("Garage Door", "garage_door", 150, 192)>>,
               <<[position |-> 200]>>,
               <<Feature("Drain", "drain", 150, 12)>>) }

\* <<width, depth, ceiling_height>>
GarageSizes ==
    { <<300, 300, 108>>, <<300, 228, 90>>, <<120, 240, 96>>, <<48, 48, 96>> }

GarageOf(size, features) ==
    [width |-> size[1], depth |-> size[2], ceiling_height |-> size[3],
     north_features |-> features.north_features,
     east_features |-> features.east_features,
     south_features |-> features.south_features,
     west_features |-> features.west_features,
     floor_features |-> features.floor_features]

Sedan ==
    [model |-> "Sedan", width |-> [plain |-> 72], length |-> [plain |-> 180],
     must_fit_inside |-> TRUE]

Truck ==
    [model |-> "Truck", width |-> [feet |-> 6, inches |-> 6],
     length |-> [feet |-> 16], must_fit_inside |-> TRUE]

Trailer == [model |-> "Trailer", length |-> [plain |-> 240]]

Unmeasured == [must_fit_inside |-> TRUE, length |-> [text |-> "N/A"]]

ActivityKinds ==
    { [name |-> "Woodworking", space_needed |-> "LARGE"],
      [name |-> "Bike repair", space_needed |-> "small"],
      [name |-> "Painting"] }

CategoryKinds ==
    { [name |-> "Tools", needs_accessibility |-> "daily"],
      [name |-> "Sports", needs_accessibility |-> "weekly"],
      [name |-> "Holiday"] }

PriorityValues == {2, 3, 4, 5}

\* Every priorities dict over some of keys.
PriorityMaps(keys) == UNION {[K -> PriorityValues] : K \in SUBSET keys}

\* Every preferences dict over some of keys.
PreferenceMaps(keys) == UNION {[K -> BOOLEAN] : K \in SUBSET keys}

ProfileOf(vehicles, storage_categories, work_activities, priorities, preferences) ==
    [vehicles |-> vehicles,
     storage_categories |-> storage_categories,
     work_activities |-> work_activities,
     priorities |-> priorities,
     preferences |-> preferences]

\* The rest of the profile in the inputs that vary the geometry.
SampleProfiles ==
    { <<<< [name |-> "Holiday"] >>, <<>>, <<>>, <<>>>>,
      <<<< [name |-> "Tools", needs_accessibility |-> "daily"] >>,
        << [name |-> "Woodworking", space_needed |-> "LARGE"] >>,
        [vehicle_storage |-> 5, workspace |-> 4, general_storage |-> 3],
        [overhead_storage |-> TRUE]>>,
      <<<< [name |-> "Holiday"] >>, <<>>,
        [general_storage |-> 4],
        [wall_storage |-> TRUE, overhead_storage |-> TRUE]>>,
      <<<<>>, <<>>,
        [vehicle_storage |-> 2, workspace |-> 5, general_storage |-> 5],
        [overhead_storage |-> FALSE]>> }

\* Every garage with up to MaxVehicles measured vehicles and a sample of
\* profiles.
GeometryInputs ==
    { [garage |-> GarageOf(size, features),
       profile |-> ProfileOf(vehicles, rest[1], rest[2], rest[3], rest[4])] :
         size \in GarageSizes, features \in FeatureConfigs,
         vehicles \in SeqsUpTo({Sedan, Truck}, MaxVehicles),
         rest \in SampleProfiles }

\* Every workspace profile: activities and the workspace priority, with
\* vehicles that need not fit or give no usable measurement, without wall
\* storage.
DemandInputs ==
    { [garage |-> GarageOf(size, features),
       profile |-> ProfileOf(vehicles, <<>>, activities, priorities,
                             [wall_storage |-> FALSE])] :
         size \in {<<300, 300, 108>>, <<120, 240, 96>>},
         features \in {NoFeatures, PanelAndWindow},
         vehicles \in SeqsUpTo({Unmeasured, Trailer}, MaxVehicles),
         activities \in SeqsUpTo(ActivityKinds, MaxActivities),
         priorities \in PriorityMaps({"workspace"}) }

\* Every storage profile: categories, the storage priority and both
\* preferences, without vehicles and activities.
StorageInputs ==
    { [garage |-> GarageOf(shell[1], shell[2]),
       profile |-> ProfileOf(<<>>, categories, <<>>, priorities, preferences)] :
         shell \in {<<<<300, 300, 108>>, NoFeatures>>,
                    <<<<48, 48, 96>>, NoFeatures>>,
                    <<<<120, 120, 96>>, OffsetFeatures>>},
         categories \in SeqsUpTo(CategoryKinds, MaxCategories),
         priorities \in PriorityMaps({"general_storage"}),
         preferences \in PreferenceMaps({"wall_storage", "overhead_storage"}) }

Inputs == GeometryInputs \cup DemandInputs \cup StorageInputs

(***************************************************************************)
(* optimize_layout as a state machine.                                     *)
(***************************************************************************)
\* A variant of LayoutRecommendation whose lists are shared between calls
\* (mutable defaults instead of default factories).
LayoutRecommendationShared == recommendation

\* LayoutRecommendation(): every list fresh and empty.
LayoutRecommendation ==
    [zones |-> <<>>, constraints |-> <<>>, reasoning |-> <<>>,
     warnings |-> <<>>, score |-> 0]

Init ==
    /\ \E input \in Inputs :
          /\ garage = input.garage
          /\ profile = input.profile
    /\ pc = "start"
    /\ recommendation = [zones |-> <<>>, constraints |-> <<>>,
                         reasoning |-> <<>>, warnings |-> <<>>, score |-> 0]
    /\ zones_needed = <<>>
    /\ i = 1
    /\ placed_zones = <<>>
    /\ outcome = <<>>
    /\ run = 1
    /\ first = <<>>
    /\ overlap_call = <<>>

\* Step 1: a fresh recommendation with the constraints of the features.
Begin ==
    /\ pc = "start"
    /\ recommendation' =
          [LayoutRecommendation EXCEPT !.constraints = generate_constraints(garage)]
    /\ zones_needed' = <<>>
    /\ pc' = "plan"
    /\ UNCHANGED overlap_call
    /\ UNCHANGED <<garage, profile, i, placed_zones, outcome, run, first>>

\* Step 2 and the sort of step 3: the demands, by descending priority.
Plan ==
    /\ pc = "plan"
    /\ zones_needed' = SortByPriorityDesc(zones_needed \o GeneratedDemands(profile))
    /\ placed_zones' = <<>>
    /\ i' = 1
    /\ outcome' = <<>>
    /\ pc' = "place"
    /\ UNCHANGED overlap_call
    /\ UNCHANGED <<garage, profile, recommendation, run, first>>

\* A variant of PlaceNext in which a failure ends the placement loop.
PlaceNextStoppingAtFailure ==
    /\ pc = "place"
    /\ i <= Len(zones_needed)
    /\ LET zone_spec == zones_needed[i]
           zone == place_zone(zone_spec, garage, recommendation.constraints,
                              placed_zones)
       IN  IF zone # <<>>
           THEN /\ placed_zones' = Append(placed_zones, zone[1])
                /\ recommendation' =
                      [recommendation EXCEPT
                          !.zones = Append(@, zone[1]),
                          !.reasoning = Append(@, PlacedReasoning(zone[1]))]
                /\ outcome' = Append(outcome, TRUE)
                /\ i' = i + 1
           ELSE /\ recommendation' =
                      [recommendation EXCEPT
                          !.warnings = Append(@, zone_spec.name)]
                /\ outcome' = Append(outcome, FALSE)
                /\ i' = Len(zones_needed) + 1
                /\ UNCHANGED placed_zones
    /\ UNCHANGED overlap_call
    /\ UNCHANGED <<garage, profile, pc, zones_needed, run, first>>

\* A variant of PlaceNext that starts the loop again after a failure.
PlaceNextRetrying ==
    /\ pc = "place"
    /\ i <= Len(zones_needed)
    /\ LET zone_spec == zones_needed[i]
           zone == place_zone(zone_spec, garage, recommendation.constraints,
                              placed_zones)
       IN  IF zone # <<>>
           THEN /\ placed_zones' = Append(placed_zones, zone[1])
                /\ recommendation' =
                      [recommendation EXCEPT
                          !.zones = Append(@, zone[1]),
                          !.reasoning = Append(@, PlacedReasoning(zone[1]))]
                /\ outcome' = Append(outcome, TRUE)
                /\ i' = i + 1
           ELSE /\ placed_zones' = <<>>
                /\ recommendation' =
                      [recommendation EXCEPT !.zones = <<>>, !.reasoning = <<>>]
                /\ outcome' = <<>>
                /\ i' = 1
    /\ UNCHANGED overlap_call
    /\ UNCHANGED <<garage, profile, pc, zones_needed, run, first>>

\* A variant of PlaceNext that puts a new zone at the front of the lists.
PlaceNextAtFront ==
    /\ pc = "place"
    /\ i <= Len(zones_needed)
    /\ LET zone_spec == zones_needed[i]
           zone == place_zone(zone_spec, garage, recommendation.constraints,
                              placed_zones)
       IN  IF zone # <<>>
           THEN /\ placed_zones' = zone \o placed_zones
                /\ recommendation' =
                      [recommendation EXCEPT
                          !.zones = zone \o @,
                          !.reasoning = <<PlacedReasoning(zone[1])>> \o @]
                /\ outcome' = Append(outcome, TRUE)
           ELSE /\ recommendation' =
                      [recommendation EXCEPT
                          !.warnings = Append(@, zone_spec.name)]
                /\ outcome' = Append(outcome, FALSE)
                /\ UNCHANGED placed_zones
    /\ i' = i + 1
    /\ UNCHANGED overlap_call
    /\ UNCHANGED <<garage, profile, pc, zones_needed, run, first>>

\* One iteration of the placement loop.
PlaceNext ==
    /\ pc = "place"
    /\ i <= Len(zones_needed)
    /\ LET zone_spec == zones_needed[i]
           zone == place_zone(zone_spec, garage, recommendation.constraints,
                              placed_zones)
       IN  IF zone # <<>>
           THEN /\ placed_zones' = Append(placed_zones, zone[1])
                /\ recommendation' =
                      [recommendation EXCEPT
                          !.zones = Append(@, zone[1]),
                          !.reasoning = Append(@, PlacedReasoning(zone[1]))]
                /\ outcome' = Append(outcome, TRUE)
           ELSE /\ recommendation' =
                      [recommendation EXCEPT
                          !.warnings = Append(@, zone_spec.name)]
                /\ outcome' = Append(outcome, FALSE)
                /\ UNCHANGED placed_zones
    /\ i' = i + 1
    /\ UNCHANGED overlap_call
    /\ UNCHANGED <<garage, profile, pc, zones_needed, run, first>>

\* Step 4, once the loop is over: the overhead platforms.
OverheadPass ==
    /\ pc = "place"
    /\ i > Len(zones_needed)
    /\ LET accepted == OverheadAccepted(garage, profile, placed_zones)
       IN  recommendation' =
              [recommendation EXCEPT
                  !.zones = @ \o [k \in 1..Len(accepted) |->
                                     OverheadZone(accepted[k], profile)],
                  !.reasoning = @ \o [k \in 1..Len(accepted) |->
                                         OverheadReasoning(accepted[k])]]
    /\ pc' = "score"
    /\ UNCHANGED overlap_call
    /\ UNCHANGED <<garage, profile, zones_needed, i, placed_zones, outcome,
                   run, first>>

\* Step 5: the score; the recommendation is returned.
Score ==
    /\ pc = "score"
    /\ recommendation' =
          [recommendation EXCEPT
              !.score = calculate_layout_score(recommendation, profile)]
    /\ pc' = "done"
    /\ UNCHANGED overlap_call
    /\ UNCHANGED <<garage, profile, zones_needed, i, placed_zones, outcome,
                   run, first>>

\* The caller keeps the first result and calls optimize_layout again on the
\* same garage and profile.
RunAgain ==
    /\ pc = "done"
    /\ run = 1
    /\ first' = <<recommendation>>
    /\ run' = 2
    /\ pc' = "start"
    /\ UNCHANGED overlap_call
    /\ UNCHANGED <<garage, profile, recommendation, zones_needed, i,
                   placed_zones, outcome>>

Next == Begin \/ Plan \/ PlaceNext \/ OverheadPass \/ Score

Spec == Init /\ [][Next]_vars

\* The control of optimize_layout moves on: to the next step, or to the next
\* demand of the loop. Every action of Next is enabled by its guard alone
\* (both branches of PlaceNext set every variable), so Advance is enabled
\* exactly where Next is, and a step of Next is a step of Advance.
Advance ==
    \/ pc = "start" /\ pc' = "plan" /\ i' = i
    \/ pc = "plan" /\ pc' = "place" /\ i' = 1
    \/ pc = "place" /\ i <= Len(zones_needed) /\ pc' = "place" /\ i' = i + 1
    \/ pc = "place" /\ i > Len(zones_needed) /\ pc' = "score" /\ i' = i
    \/ pc = "score" /\ pc' = "done" /\ i' = i

\* optimize_layout is sequential code with no wait: while it has not returned,
\* its control moves on.
SpecFair == Init /\ [][Next]_vars /\ WF_<<pc, i>>(Advance)

NextTwice == Next \/ RunAgain

SpecTwice == Init /\ [][NextTwice]_vars

(***************************************************************************)
(* rectangles_overlap on its own: a call on every pair of small            *)
(* rectangles.                                                             *)
(***************************************************************************)
Rectangles ==
    [x : 0..MaxCoord, y : 0..MaxCoord, width : 0..MaxSide, depth : 0..MaxSide]

InitOverlap ==
    /\ garage = GarageOf(<<300, 300, 108>>, NoFeatures)
    /\ profile = ProfileOf(<<>>, <<>>, <<>>, <<>>, <<>>)
    /\ pc = "start"
    /\ recommendation = [zones |-> <<>>, constraints |-> <<>>,
                         reasoning |-> <<>>, warnings |-> <<>>, score |-> 0]
    /\ zones_needed = <<>>
    /\ i = 1
    /\ placed_zones = <<>>
    /\ outcome = <<>>
    /\ run = 1
    /\ first = <<>>
    /\ \E a \in Rectangles, b \in Rectangles : overlap_call = <<a, b>>

\* The call returns its answer.
CallOverlap ==
    /\ Len(overlap_call) = 2
    /\ LET a == overlap_call[1]
           b == overlap_call[2]
       IN  overlap_call' =
              <<a, b, rectangles_overlap(a.x, a.y, a.width, a.depth,
                                         b.x, b.y, b.width, b.depth)>>
    /\ UNCHANGED <<garage, profile, pc, recommendation, zones_needed, i,
                   placed_zones, outcome, run, first>>

NextOverlap == CallOverlap

SpecOverlap == InitOverlap /\ [][NextOverlap]_vars

(***************************************************************************)
(* main: the garage layout file is loaded, the run is aborted if the       *)
(* garage has no width or no depth, else the usage profile is loaded and   *)
(* optimize_layout is called.                                              *)
(*                                                                         *)
(* A layout file is [found |-> FALSE] if it does not exist, else its       *)
(* parts: dimensions is <<width, depth>> (two measurements) or <<>> if no  *)
(* line matches the header pattern, ceiling is <<height>> or <<>>, lines   *)
(* are the feature lines as [wall, name, position]. A profile file is the  *)
(* dict of its JSON, <<>> if it does not exist or is not JSON.             *)
(***************************************************************************)
\* feature_name.lower().replace(' ', '_') on the names the files use.
TypeOfName(name) ==
    CASE name = "Garage Door" -> "garage_door"
      [] name = "Entry Door" -> "entry_door"
      [] name = "Electrical Panel" -> "electrical_panel"
      [] name = "Window" -> "window"

\* The width the loader estimates from the name of a feature.
EstimatedWidth(name) ==
    IF Contains(Lower(name), "garage door") THEN 192
    ELSE IF Contains(Lower(name), "door") THEN 36
    ELSE IF Contains(Lower(name), "window") THEN 36
    ELSE IF Contains(Lower(name), "panel") THEN 24
    ELSE 36

LoadedFeature(line) ==
    Feature(line.name, TypeOfName(line.name),
            OrDefault(measurement_to_inches(line.position), 0),
            EstimatedWidth(line.name))

load_garage_layout(file) ==
    IF ~file.found
    THEN GarageOf(<<0, 0, 0>>, NoFeatures)
    ELSE LET OfWall(wall) ==
                 LET On(line) == line.wall = wall
                     lines == SelectSeq(file.lines, On)
                 IN  [k \in 1..Len(lines) |-> LoadedFeature(lines[k])]
             Inches(m) == OrDefault(measurement_to_inches(m), 0)
         IN  GarageOf(<< IF file.dimensions # <<>>
                         THEN Inches(file.dimensions[1]) ELSE 0,
                         IF file.dimensions # <<>>
                         THEN Inches(file.dimensions[2]) ELSE 0,
                         IF file.ceiling # <<>>
                         THEN Inches(file.ceiling[1]) ELSE 0 >>,
                      Features(OfWall("N"), OfWall("E"), OfWall("S"),
                               OfWall("W"), OfWall("FLOOR")))

load_usage_profile(data) ==
    ProfileOf(Get(data, "vehicles", <<>>),
              Get(data, "storage_categories", <<>>),
              Get(data, "work_activities", <<>>),
              Get(data, "priorities", <<>>),
              Get(data, "preferences", <<>>))

FeatureLines ==
    { <<>>,
      << [wall |-> "S", name |-> "Garage Door",
          position |-> [feet |-> 12, inches |-> 6]],
         [wall |-> "E", name |-> "Electrical Panel",
          position |-> [feet |-> 10]],
         [wall |-> "W", name |-> "Window", position |-> [text |-> ""]] >> }

LayoutFiles ==
    { [found |-> FALSE] }
    \cup { [found |-> TRUE, dimensions |-> dimensions, ceiling |-> ceiling,
            lines |-> lines] :
              dimensions \in {<<>>}
                  \cup ({[feet |-> 25], [text |-> "N/A"], [plain |-> 0]}
                        \X {[feet |-> 25], [feet |-> 19], [text |-> "N/A"]}),
              ceiling \in {<<>>, <<[feet |-> 9]>>},
              lines \in FeatureLines }

ProfileFiles ==
    { <<>>,
      [vehicles |-> <<Sedan>>],
      [vehicles |-> <<Sedan, Truck>>,
       priorities |-> [vehicle_storage |-> 5],
       preferences |-> [overhead_storage |-> TRUE]],
      [storage_categories |-> <<[name |-> "Tools",
                                 needs_accessibility |-> "daily"]>>,
       work_activities |-> <<[name |-> "Woodworking",
                              space_needed |-> "LARGE"]>>,
       priorities |-> [workspace |-> 4, general_storage |-> 4]] }

InitMain ==
    /\ garage = GarageOf(<<0, 0, 0>>, NoFeatures)
    /\ profile = ProfileOf(<<>>, <<>>, <<>>, <<>>, <<>>)
    /\ pc = "main"
    /\ recommendation = [zones |-> <<>>, constraints |-> <<>>,
                         reasoning |-> <<>>, warnings |-> <<>>, score |-> 0]
    /\ zones_needed = <<>>
    /\ i = 1
    /\ placed_zones = <<>>
    /\ outcome = <<>>
    /\ run = 1
    /\ first = <<>>
    /\ overlap_call = <<>>

\* A variant of CheckDimensions that aborts only if both width and depth
\* are zero.
CheckDimensionsBothZero ==
    /\ pc = "loaded"
    /\ IF garage.width = 0 /\ garage.depth = 0
       THEN /\ pc' = "exit"
            /\ UNCHANGED profile
       ELSE /\ \E data \in ProfileFiles : profile' = load_usage_profile(data)
            /\ pc' = "start"
    /\ UNCHANGED <<garage, recommendation, zones_needed, i, placed_zones,
                   outcome, run, first, overlap_call>>

\* garage = load_garage_layout("garage_layout.txt")
LoadGarage ==
    /\ pc = "main"
    /\ \E file \in LayoutFiles : garage' = load_garage_layout(file)
    /\ pc' = "loaded"
    /\ UNCHANGED <<profile, recommendation, zones_needed, i, placed_zones,
                   outcome, run, first, overlap_call>>

\* The check of the dimensions: sys.exit(1), or the profile is loaded and
\* optimize_layout called.
CheckDimensions ==
    /\ pc = "loaded"
    /\ IF garage.width = 0 \/ garage.depth = 0
       THEN /\ pc' = "exit"
            /\ UNCHANGED profile
       ELSE /\ \E data \in ProfileFiles : profile' = load_usage_profile(data)
            /\ pc' = "start"
    /\ UNCHANGED <<garage, recommendation, zones_needed, i, placed_zones,
                   outcome, run, first, overlap_call>>

NextMain == LoadGarage \/ CheckDimensions \/ Next

SpecMain == InitMain /\ [][NextMain]_vars

(***************************************************************************)
(* Vocabulary of the properties.                                           *)
(***************************************************************************)
\* The demands are planned and sorted: the placement loop runs or is over.
Planned == pc \in {"place", "score", "done"}

\* optimize_layout has returned: recommendation is the result.
Returned == pc = "done"

Zones == recommendation.zones

Constraints == recommendation.constraints

Warnings == recommendation.warnings

Overlap(a, b) ==
    rectangles_overlap(a.x, a.y, a.width, a.depth, b.x, b.y, b.width, b.depth)

IsFloorZone(z) == z.zone_type # OVERHEAD_STORAGE

\* The profile's vehicles that must fit inside, in profile order.
MustFitVehicles ==
    LET Must(v) == "must_fit_inside" \in DOMAIN v /\ v.must_fit_inside
    IN  SelectSeq(profile.vehicles, Must)

DemandsOfType(t) ==
    LET Is(d) == d.type = t
    IN  SelectSeq(zones_needed, Is)

\* The number of demands before demand k that were placed.
PlacedBefore(k) == Cardinality({j \in 1..(k - 1) : outcome[j]})

\* The number of demands before demand k that failed.
FailedBefore(k) == Cardinality({j \in 1..(k - 1) : ~outcome[j]})

\* A garage with no feature and the given size.
PlainGarage(w, d) ==
    /\ garage.width = w /\ garage.depth = d
    /\ garage.north_features = <<>> /\ garage.east_features = <<>>
    /\ garage.south_features = <<>> /\ garage.west_features = <<>>

(***************************************************************************)
(* C1. Bounds: every zone of the result, overhead zones included, lies     *)
(* within the garage: 0 <= x, 0 <= y, x + width <= garage.width and        *)
(* y + depth <= garage.depth.                                              *)
(***************************************************************************)
C1_Bounds ==
    Returned =>
        \A k \in 1..Len(Zones) :
            /\ 0 <= Zones[k].x
            /\ 0 <= Zones[k].y
            /\ Zones[k].x + Zones[k].width <= garage.width
            /\ Zones[k].y + Zones[k].depth <= garage.depth

(***************************************************************************)
(* C2. Non-overlap: after every placement step and in the result, no two   *)
(* distinct zones of which neither is overhead storage have overlapping    *)
(* recorded rectangles.                                                    *)
(***************************************************************************)
C2_NonOverlap ==
    Planned =>
        \A j, k \in 1..Len(Zones) :
            (j # k /\ IsFloorZone(Zones[j]) /\ IsFloorZone(Zones[k]))
                => ~Overlap(Zones[j], Zones[k])

(***************************************************************************)
(* C3. Constraint avoidance: in the result no workbench or wall-storage    *)
(* zone overlaps a constraint, and a vehicle zone overlaps no constraint   *)
(* but a garage door's.                                                    *)
(***************************************************************************)
C3_ConstraintAvoidance ==
    Returned =>
        \A k \in 1..Len(Zones) : \A c \in 1..Len(Constraints) :
            /\ Zones[k].zone_type \in {WORKBENCH, WALL_STORAGE}
                  => ~Overlap(Zones[k], Constraints[c])
            /\ (Zones[k].zone_type = VEHICLE /\ Overlap(Zones[k], Constraints[c]))
                  => Constraints[c].constraint_type
                        \in {"garage_door", "double_garage_door"}

(***************************************************************************)
(* C4. Priority ordering: the demands are processed by descending          *)
(* priority, equal priorities in generation order (vehicles by index, the  *)
(* workbench, wall-storage sections by number), one per step; the zones    *)
(* other than overhead ones and the warnings appear in processing order.   *)
(***************************************************************************)
\* The place of a demand in the generation order.
GenerationRank(d) ==
    CASE d.type = VEHICLE -> d.vehicle_index
      [] d.type = WORKBENCH -> 100
      [] d.type = WALL_STORAGE -> 200 + d.name.n

\* The indices of the processed demands with the given outcome, ascending.
ProcessedWith(flag) ==
    LET Has(k) == outcome[k] = flag
    IN  SelectSeq([k \in 1..Len(outcome) |-> k], Has)

C4_PriorityOrdering ==
    Planned =>
        /\ Len(zones_needed) = Len(GeneratedDemands(profile))
        /\ \A g \in 1..Len(GeneratedDemands(profile)) :
              \E k \in 1..Len(zones_needed) :
                  zones_needed[k] = GeneratedDemands(profile)[g]
        /\ \A j, k \in 1..Len(zones_needed) :
              j < k =>
                 \/ zones_needed[j].priority > zones_needed[k].priority
                 \/ /\ zones_needed[j].priority = zones_needed[k].priority
                    /\ GenerationRank(zones_needed[j]) < GenerationRank(zones_needed[k])
        /\ Len(outcome) = i - 1
        /\ LET floor == SelectSeq(Zones, IsFloorZone)
               placed == ProcessedWith(TRUE)
               failed == ProcessedWith(FALSE)
           IN  /\ Len(floor) = Len(placed)
               /\ \A m \in 1..Len(floor) :
                     /\ floor[m].name = zones_needed[placed[m]].name
                     /\ floor[m].zone_type = zones_needed[placed[m]].type
                     /\ floor[m].priority = zones_needed[placed[m]].priority
               /\ Len(Warnings) = Len(failed)
               /\ \A m \in 1..Len(Warnings) :
                     Warnings[m] = zones_needed[failed[m]].name

\* A result where the sort moved a storage section ahead of a vehicle, two
\* demand types tie, and both zones and warnings were recorded.
C4_Witness ==
    /\ Returned
    /\ \E j, k \in 1..Len(zones_needed) :
          /\ j < k
          /\ zones_needed[j].type = WALL_STORAGE
          /\ zones_needed[k].type = VEHICLE
    /\ \E j, k \in 1..Len(zones_needed) :
          /\ zones_needed[j].type = WORKBENCH
          /\ zones_needed[k].type = WALL_STORAGE
          /\ zones_needed[j].priority = zones_needed[k].priority
    /\ Len(Warnings) >= 2
    /\ Len(SelectSeq(Zones, IsFloorZone)) >= 2

PlacedVehicles == SelectSeq(placed_zones, IsVehicle)

C6_SameY ==
    (Planned /\ Len(MustFitVehicles) >= 2) =>
        /\ PlacedVehicles # <<>> => PlacedVehicles[1].x = 30
        /\ \A k \in 2..Len(PlacedVehicles) :
              /\ PlacedVehicles[k].x
                    = PlacedVehicles[k - 1].x + PlacedVehicles[k - 1].width + 12
              /\ PlacedVehicles[k].y = PlacedVehicles[k - 1].y

(***************************************************************************)
(* C6, amended. With two or more must-fit vehicles the first placed        *)
(* vehicle is at x = 30, every later placed vehicle is at the previous     *)
(* placed vehicle's x + width + 12, and every placed vehicle is at         *)
(* y = garage.depth - its own zone depth (the previous vehicle's y exactly *)
(* when the two zones are equally deep). Scenario B: a 300x300 garage and  *)
(* two 72x180 vehicles give zones at x = 30 and x = 138, y = 96, 96 wide   *)
(* and 204 deep.                                                           *)
(***************************************************************************)
ScenarioB ==
    /\ PlainGarage(300, 300)
    /\ profile.vehicles = <<Sedan, Sedan>>
    /\ profile.priorities = <<>>

C6_Adjacency ==
    (Planned /\ Len(MustFitVehicles) >= 2) =>
        /\ PlacedVehicles # <<>> => PlacedVehicles[1].x = 30
        /\ \A k \in 1..Len(PlacedVehicles) :
              PlacedVehicles[k].y = garage.depth - PlacedVehicles[k].depth
        /\ \A k \in 2..Len(PlacedVehicles) :
              /\ PlacedVehicles[k].x
                    = PlacedVehicles[k - 1].x + PlacedVehicles[k - 1].width + 12
              /\ PlacedVehicles[k].y = PlacedVehicles[k - 1].y
                    <=> PlacedVehicles[k].depth = PlacedVehicles[k - 1].depth
        /\ (ScenarioB /\ Returned) =>
              /\ Len(PlacedVehicles) = 2
              /\ \A k \in 1..2 :
                    /\ Zones[k].zone_type = VEHICLE
                    /\ Zones[k].x = (IF k = 1 THEN 30 ELSE 138)
                    /\ Zones[k].y = 96
                    /\ Zones[k].width = 96
                    /\ Zones[k].depth = 204

\* A result with two placed vehicles of different lengths.
C6_Witness ==
    /\ Returned
    /\ Len(MustFitVehicles) >= 2
    /\ Len(PlacedVehicles) = 2
    /\ PlacedVehicles[1].depth # PlacedVehicles[2].depth

(***************************************************************************)
(* C7. Single-vehicle placement: with exactly one must-fit vehicle its     *)
(* candidates are tried in the order centred ((W - w) / 2), left (30),     *)
(* right (W - w - 30), all at y = garage.depth - zone depth; the zone is   *)
(* placed, with wall "S", at the first candidate that is in bounds and     *)
(* overlaps no constraint but a garage door's and no zone placed before    *)
(* it; if there is none the vehicle is not placed and a warning names it.  *)
(* Scenario A: a 300x300 garage and a 72x180 vehicle give x = 90, y = 96.  *)
(***************************************************************************)
\* Whether the rectangle of demand k at <<x, y>> was free when k was processed.
FreeForVehicle(x, y, k) ==
    LET r == [x |-> x, y |-> y, width |-> zones_needed[k].width,
              depth |-> zones_needed[k].depth]
    IN  /\ 0 <= x /\ 0 <= y
        /\ x + r.width <= garage.width
        /\ y + r.depth <= garage.depth
        /\ \A c \in 1..Len(Constraints) :
              Overlap(r, Constraints[c])
                 => Constraints[c].constraint_type
                       \in {"garage_door", "double_garage_door"}
        /\ \A z \in 1..PlacedBefore(k) : ~Overlap(r, placed_zones[z])

\* centred, left, right
SingleCandidates(k) ==
    << (garage.width - zones_needed[k].width) \div 2,
       30,
       garage.width - zones_needed[k].width - 30 >>

ScenarioA ==
    /\ PlainGarage(300, 300)
    /\ profile.vehicles = <<Sedan>>
    /\ profile.priorities = <<>>

C7_SingleVehicle ==
    (Planned /\ Len(MustFitVehicles) = 1) =>
        /\ \A k \in 1..Len(outcome) :
              zones_needed[k].type = VEHICLE =>
                 LET y == garage.depth - zones_needed[k].depth
                     xs == SingleCandidates(k)
                     free == {m \in 1..3 : FreeForVehicle(xs[m], y, k)}
                 IN  IF free = {}
                     THEN /\ ~outcome[k]
                          /\ Warnings[FailedBefore(k) + 1] = zones_needed[k].name
                     ELSE /\ outcome[k]
                          /\ LET zone == placed_zones[PlacedBefore(k) + 1]
                                 m == CHOOSE m \in free : \A n \in free : m <= n
                             IN  /\ zone.zone_type = VEHICLE
                                 /\ zone.name = zones_needed[k].name
                                 /\ zone.x = xs[m]
                                 /\ zone.y = y
                                 /\ zone.width = zones_needed[k].width
                                 /\ zone.depth = zones_needed[k].depth
                                 /\ zone.wall = "S"
        /\ (ScenarioA /\ Returned) =>
              /\ Zones[1].zone_type = VEHICLE
              /\ Zones[1].x = 90 /\ Zones[1].y = 96
              /\ Zones[1].width = 120 /\ Zones[1].depth = 204
              /\ Zones[1].wall = "S"

\* A result whose single vehicle stands at the left candidate, the centred
\* one being taken by a constraint.
C7_Witness ==
    /\ Returned
    /\ Len(MustFitVehicles) = 1
    /\ PlacedVehicles # <<>>
    /\ PlacedVehicles[1].x = 30
    /\ (garage.width - PlacedVehicles[1].width) \div 2 # 30
    /\ Constraints # <<>>

(***************************************************************************)
(* C8. Vehicle demand sizing: one vehicle demand per profile vehicle with  *)
(* must_fit_inside true and none for the others, in profile order, with    *)
(* its 0-based index and the count N; its width is the vehicle's width     *)
(* + 48 when N = 1 and + 24 when N >= 2, its depth the vehicle's length    *)
(* + 24.                                                                   *)
(***************************************************************************)
\* The width and length of a vehicle in inches: 72 and 180 when the profile
\* gives no usable measurement.
WidthInInches(v) ==
    IF "width" \in DOMAIN v /\ measurement_to_inches(v.width) # <<>>
    THEN measurement_to_inches(v.width)[1]
    ELSE 72

LengthInInches(v) ==
    IF "length" \in DOMAIN v /\ measurement_to_inches(v.length) # <<>>
    THEN measurement_to_inches(v.length)[1]
    ELSE 180

C8_VehicleDemands ==
    Planned =>
        LET demands == DemandsOfType(VEHICLE)
            N == Len(MustFitVehicles)
        IN  /\ Len(demands) = N
            /\ \A k \in 1..N :
                  /\ demands[k].vehicle_index = k - 1
                  /\ demands[k].total_vehicles = N
                  /\ demands[k].width
                        = WidthInInches(MustFitVehicles[k])
                             + (IF N = 1 THEN 48 ELSE 24)
                  /\ demands[k].depth = LengthInInches(MustFitVehicles[k]) + 24

\* A planned run with one must-fit vehicle among two vehicles.
C8_Witness ==
    /\ Planned
    /\ Len(profile.vehicles) = 2
    /\ Len(MustFitVehicles) = 1
    /\ Len(DemandsOfType(VEHICLE)) = 1
    /\ DemandsOfType(VEHICLE)[1].width = 120

(***************************************************************************)
(* C9. Workbench tier: a workbench demand is 96 wide (large tier) if the   *)
(* workspace priority is >= 5, or >= 4 with an activity that needs medium  *)
(* or large space; else 72 wide (medium) if an activity needs medium or    *)
(* large space or the priority is >= 4; else 48 wide (small); its depth is *)
(* the tier's depth (30, 30, 24) plus 36. Scenario C: no activity and      *)
(* priority 5 give the large tier.                                         *)
(***************************************************************************)
\* The workspace priority, 3 when the profile gives none.
WorkspacePriority ==
    IF "workspace" \in DOMAIN profile.priorities
    THEN profile.priorities["workspace"]
    ELSE 3

SomeActivityNeedsSpace ==
    \E k \in 1..Len(profile.work_activities) :
        /\ "space_needed" \in DOMAIN profile.work_activities[k]
        /\ profile.work_activities[k].space_needed
              \in {"medium", "large", "Medium", "LARGE"}

C9_WorkbenchTier ==
    Planned =>
        \A k \in 1..Len(zones_needed) :
            zones_needed[k].type = WORKBENCH =>
                LET d == zones_needed[k]
                IN  IF \/ WorkspacePriority >= 5
                       \/ (WorkspacePriority >= 4 /\ SomeActivityNeedsSpace)
                    THEN d.width = 96 /\ d.depth = 30 + 36
                    ELSE IF SomeActivityNeedsSpace \/ WorkspacePriority >= 4
                    THEN d.width = 72 /\ d.depth = 30 + 36
                    ELSE d.width = 48 /\ d.depth = 24 + 36

\* Scenario C: no activity, workspace priority 5, a large workbench demand.
C9_Witness ==
    /\ Planned
    /\ profile.work_activities = <<>>
    /\ WorkspacePriority = 5
    /\ Len(DemandsOfType(WORKBENCH)) = 1
    /\ DemandsOfType(WORKBENCH)[1].width = 96

(***************************************************************************)
(* C10. Wall-storage override: with the wall_storage preference enabled or *)
(* absent and a general-storage priority >= 5 there are exactly 20         *)
(* wall-storage demands, each 48x18, whatever the storage categories; with *)
(* the preference disabled there is none.                                  *)
(***************************************************************************)
WallStorageEnabled ==
    \/ "wall_storage" \notin DOMAIN profile.preferences
    \/ profile.preferences["wall_storage"]

C10_WallStorageOverride ==
    Planned =>
        LET demands == DemandsOfType(WALL_STORAGE)
        IN  /\ ( /\ WallStorageEnabled
                 /\ "general_storage" \in DOMAIN profile.priorities
                 /\ profile.priorities["general_storage"] >= 5 )
                  => /\ Len(demands) = 20
                     /\ \A k \in 1..20 :
                           demands[k].width = 48 /\ demands[k].depth = 18
            /\ ~WallStorageEnabled => Len(demands) = 0

\* Scenario D: one category with no access flag, priority 5, 20 demands.
C10_Witness ==
    /\ Planned
    /\ Len(profile.storage_categories) = 1
    /\ "needs_accessibility" \notin DOMAIN profile.storage_categories[1]
    /\ "general_storage" \in DOMAIN profile.priorities
    /\ profile.priorities["general_storage"] = 5
    /\ Len(DemandsOfType(WALL_STORAGE)) = 20

(***************************************************************************)
(* C11. Wall-storage count below priority 5: with count = 2 + the number   *)
(* of storage categories + 2 * the daily-access ones + the weekly-access   *)
(* ones, the number of wall-storage demands is min(15, round(count * 1.5)) *)
(* when the general-storage priority is 4 and min(8, count) when it is 3   *)
(* or lower, for every count, odd ones included. round is Python's: a half *)
(* goes to the even neighbour (rounding a half up differs from it only by  *)
(* giving more).                                                           *)
(***************************************************************************)
C11_RoundedCount ==
    (Planned /\ WallStorageEnabled
        /\ "general_storage" \in DOMAIN profile.priorities) =>
        LET cats == profile.storage_categories
            Access(k) == IF "needs_accessibility" \in DOMAIN cats[k]
                         THEN cats[k].needs_accessibility ELSE ""
            daily == Cardinality({k \in 1..Len(cats) : Access(k) = "daily"})
            weekly == Cardinality({k \in 1..Len(cats) : Access(k) = "weekly"})
            count == 2 + Len(cats) + 2 * daily + weekly
            whole == (3 * count) \div 2
            rounded == IF (3 * count) % 2 = 0 \/ whole % 2 = 0
                       THEN whole ELSE whole + 1
            priority == profile.priorities["general_storage"]
            demands == Len(DemandsOfType(WALL_STORAGE))
        IN  /\ priority = 4 =>
                  demands = (IF rounded < 15 THEN rounded ELSE 15)
            /\ priority <= 3 =>
                  demands = (IF count < 8 THEN count ELSE 8)

(***************************************************************************)
(* C12. Garage door on the south wall: every south-wall feature of type    *)
(* garage_door yields a constraint with depth 60 and                       *)
(* y = max(0, garage.depth - 60), whatever the clearance table holds for   *)
(* that type (36).                                                         *)
(***************************************************************************)
C12_SouthGarageDoor ==
    pc # "start" =>
        LET OnSouth(c) == c.wall = "S"
            south == SelectSeq(Constraints, OnSouth)
        IN  /\ CLEARANCES["garage_door"] = 36
            /\ Len(south) = Len(garage.south_features)
            /\ \A k \in 1..Len(south) :
                  ( /\ "type" \in DOMAIN garage.south_features[k]
                    /\ garage.south_features[k].type = "garage_door" )
                     => /\ south[k].depth = 60
                        /\ south[k].y = (IF garage.depth - 60 > 0
                                         THEN garage.depth - 60 ELSE 0)

\* A result for a garage deeper than 60 with a garage door behind another
\* feature of the south wall.
C12_Witness ==
    /\ Returned
    /\ garage.depth > 60
    /\ Len(garage.south_features) = 2
    /\ garage.south_features[2].type = "garage_door"
    /\ Len(Constraints) >= 2

(***************************************************************************)
(* C13. Score: the score of the result is 100 - 15 * the number of         *)
(* warnings, + 10 if a vehicle zone was placed and the vehicle-storage     *)
(* priority is >= 4, + 10 if a workbench zone was placed and the workspace *)
(* priority is >= 4, clamped to 0..100; hence 0 <= score <= 100.           *)
(***************************************************************************)
C13_Score ==
    Returned =>
        LET AtLeastFour(key) == /\ key \in DOMAIN profile.priorities
                                /\ profile.priorities[key] >= 4
            Placed(t) == \E k \in 1..Len(Zones) : Zones[k].zone_type = t
            raw == 100 - 15 * Len(Warnings)
                   + (IF Placed(VEHICLE) /\ AtLeastFour("vehicle_storage")
                      THEN 10 ELSE 0)
                   + (IF Placed(WORKBENCH) /\ AtLeastFour("workspace")
                      THEN 10 ELSE 0)
        IN  /\ recommendation.score
                  = (IF raw < 0 THEN 0 ELSE IF raw > 100 THEN 100 ELSE raw)
            /\ 0 <= recommendation.score
            /\ recommendation.score <= 100

\* A result with a bonus and enough warnings for the score to be cut at 0.
C13_Witness ==
    /\ Returned
    /\ Len(Warnings) >= 8
    /\ \E k \in 1..Len(Zones) : Zones[k].zone_type = WORKBENCH
    /\ "workspace" \in DOMAIN profile.priorities
    /\ profile.priorities["workspace"] >= 4
    /\ recommendation.score = 0

(***************************************************************************)
(* C14. Missing priorities default to 3: where a category priority is      *)
(* absent from the profile, the demands (whether a workbench demand is     *)
(* created, its tier, the wall-storage count, the priority each demand     *)
(* carries) and the score are those of the same profile with that priority *)
(* given as 3; in particular a profile with no work activity and no        *)
(* workspace priority yields a workbench demand.                           *)
(***************************************************************************)
C14_DefaultThree ==
    LET Given(key) == IF key \in DOMAIN profile.priorities
                      THEN profile.priorities[key] ELSE 3
        completed == [profile EXCEPT !.priorities =
                         [vehicle_storage |-> Given("vehicle_storage"),
                          workspace |-> Given("workspace"),
                          general_storage |-> Given("general_storage")]]
    IN  /\ Planned =>
              /\ zones_needed = SortByPriorityDesc(GeneratedDemands(completed))
              /\ ( /\ profile.work_activities = <<>>
                   /\ "workspace" \notin DOMAIN profile.priorities )
                    => \E k \in 1..Len(zones_needed) :
                          /\ zones_needed[k].type = WORKBENCH
                          /\ zones_needed[k].priority = 3
        /\ Returned =>
              recommendation.score
                  = calculate_layout_score(recommendation, completed)

(***************************************************************************)
(* C15. Soft failure and accounting: every demand produces exactly one     *)
(* outcome, either one zone appended together with one reasoning string or *)
(* one warning appended with the placed-zone list left unchanged, and the  *)
(* loop goes on to the next demand either way. Hence, once the loop is     *)
(* over, the zones other than overhead ones and the warnings together are  *)
(* as many as the demands, and there are as many reasoning strings as      *)
(* zones.                                                                  *)
(***************************************************************************)
C15_SoftFailure ==
    /\ [](Planned =>
            /\ Len(recommendation.reasoning) = Len(Zones)
            /\ pc # "place" =>
                  /\ Len(outcome) = Len(zones_needed)
                  /\ Len(SelectSeq(Zones, IsFloorZone)) + Len(Warnings)
                        = Len(zones_needed))
    /\ [][(pc = "place" /\ i <= Len(zones_needed)) =>
            /\ pc' = "place"
            /\ i' = i + 1
            /\ \/ /\ Len(placed_zones') = Len(placed_zones) + 1
                  /\ SubSeq(placed_zones', 1, Len(placed_zones)) = placed_zones
                  /\ recommendation'.zones
                        = Append(Zones, placed_zones'[Len(placed_zones')])
                  /\ Len(recommendation'.reasoning)
                        = Len(recommendation.reasoning) + 1
                  /\ recommendation'.warnings = Warnings
               \/ /\ recommendation'.warnings
                        = Append(Warnings, zones_needed[i].name)
                  /\ placed_zones' = placed_zones
                  /\ recommendation'.zones = Zones
                  /\ recommendation'.reasoning = recommendation.reasoning
         ]_vars

\* A result in which a demand was placed after another one had failed.
C15_Witness ==
    /\ Returned
    /\ \E j, k \in 1..Len(outcome) : j < k /\ ~outcome[j] /\ outcome[k]

(***************************************************************************)
(* C16. Strict positivity: every zone of the result and every generated    *)
(* constraint has width > 0 and depth > 0, for every input the interface   *)
(* allows (feature positions and widths that are numbers >= 0, any vehicle *)
(* dimensions).                                                            *)
(***************************************************************************)
C16_StrictPositivity ==
    /\ pc # "start" =>
          \A c \in 1..Len(Constraints) :
              Constraints[c].width > 0 /\ Constraints[c].depth > 0
    /\ Returned =>
          \A k \in 1..Len(Zones) : Zones[k].width > 0 /\ Zones[k].depth > 0

(***************************************************************************)
(* C17. Monotone placement: during a run the placed-zone list starts empty *)
(* and only grows by appending; a zone, once appended, is never changed    *)
(* (position, size, wall, type) and never removed, neither by a later      *)
(* placement nor by the overhead pass, which only appends to the zones of  *)
(* the result.                                                             *)
(***************************************************************************)
C17_MonotonePlacement ==
    /\ []((pc = "place" /\ i = 1) => (placed_zones = <<>> /\ Zones = <<>>))
    /\ [][/\ \/ placed_zones' = placed_zones
             \/ /\ Len(placed_zones') = Len(placed_zones) + 1
                /\ SubSeq(placed_zones', 1, Len(placed_zones)) = placed_zones
          /\ Len(recommendation'.zones) >= Len(Zones)
          /\ SubSeq(recommendation'.zones, 1, Len(Zones)) = Zones
          /\ pc = "place" /\ i > Len(zones_needed) =>
                placed_zones' = placed_zones
         ]_vars

\* A result with several placed zones, a failure and an overhead platform.
C17_Witness ==
    /\ Returned
    /\ Len(placed_zones) >= 3
    /\ Warnings # <<>>
    /\ Len(Zones) > Len(placed_zones)

(***************************************************************************)
(* C18. Overhead gating: the result contains an overhead-storage zone only *)
(* if the overhead_storage preference is enabled (absent counts as         *)
(* disabled) and the ceiling height is >= 96; otherwise the overhead pass  *)
(* adds no zone and no reasoning string.                                   *)
(***************************************************************************)
OverheadPreferred ==
    /\ "overhead_storage" \in DOMAIN profile.preferences
    /\ profile.preferences["overhead_storage"]

C18_OverheadGating ==
    pc \in {"score", "done"} =>
        /\ (\E k \in 1..Len(Zones) : Zones[k].zone_type = OVERHEAD_STORAGE)
              => (OverheadPreferred /\ garage.ceiling_height >= 96)
        /\ ~(OverheadPreferred /\ garage.ceiling_height >= 96)
              => /\ Zones = placed_zones
                 /\ Len(recommendation.reasoning) = Len(placed_zones)

\* A result without a platform because the ceiling is too low, although
\* the preference is enabled and zones were placed.
C18_Witness ==
    /\ Returned
    /\ OverheadPreferred
    /\ garage.ceiling_height < 96
    /\ placed_zones # <<>>
    /\ Zones = placed_zones

(***************************************************************************)
(* C19. Overlap predicate: rectangles_overlap(a, b) is                     *)
(* rectangles_overlap(b, a) for every pair of rectangles; it is true       *)
(* exactly when not (a.right <= b.left or b.right <= a.left or             *)
(* a.bottom <= b.top or b.bottom <= a.top); two rectangles that only share *)
(* an edge (a.x + a.width = b.x, say) are never reported as overlapping.   *)
(***************************************************************************)
C19_OverlapPredicate ==
    Len(overlap_call) = 3 =>
        LET a == overlap_call[1]
            b == overlap_call[2]
            answer == overlap_call[3]
        IN  /\ answer = rectangles_overlap(b.x, b.y, b.width, b.depth,
                                           a.x, a.y, a.width, a.depth)
            /\ answer <=> ~( \/ a.x + a.width <= b.x
                             \/ b.x + b.width <= a.x
                             \/ a.y + a.depth <= b.y
                             \/ b.y + b.depth <= a.y )
            /\ ( \/ a.x + a.width = b.x
                 \/ b.x + b.width = a.x
                 \/ a.y + a.depth = b.y
                 \/ b.y + b.depth = a.y ) => ~answer

\* An answered call on two rectangles with sides that share a stretch of the
\* edge where a ends and b begins.
C19_Witness ==
    /\ Len(overlap_call) = 3
    /\ overlap_call[1].width > 0 /\ overlap_call[1].depth > 0
    /\ overlap_call[2].width > 0 /\ overlap_call[2].depth > 0
    /\ overlap_call[1].x + overlap_call[1].width = overlap_call[2].x
    /\ overlap_call[1].y < overlap_call[2].y + overlap_call[2].depth
    /\ overlap_call[2].y < overlap_call[1].y + overlap_call[1].depth
    /\ ~overlap_call[3]

(***************************************************************************)
(* C20. Fatal precondition: when the loaded garage width or depth is zero  *)
(* (an unknown one loads as zero), the run aborts before optimize_layout   *)
(* is called, so that no layout, zones or score are produced.              *)
(***************************************************************************)
C20_FatalPrecondition ==
    /\ [](pc \in {"start", "plan", "place", "score", "done"} =>
             (garage.width # 0 /\ garage.depth # 0))
    /\ [](pc = "exit" =>
             /\ recommendation = [zones |-> <<>>, constraints |-> <<>>,
                                  reasoning |-> <<>>, warnings |-> <<>>,
                                  score |-> 0]
             /\ zones_needed = <<>>
             /\ placed_zones = <<>>)
    /\ [][(pc = "loaded" /\ (garage.width = 0 \/ garage.depth = 0)) =>
             pc' = "exit"]_vars

\* An aborted run whose layout file gave a width but no usable depth.
C20_Witness ==
    /\ pc = "exit"
    /\ garage.width > 0
    /\ garage.depth = 0

(***************************************************************************)
(* C21. Termination: for every garage and profile optimize_layout          *)
(* terminates, having attempted each demand exactly once (no retry, no new *)
(* attempt once the candidates of a demand are exhausted), also when the   *)
(* wall-storage scans cover no candidate or every demand fails.            *)
(***************************************************************************)
C21_Termination ==
    /\ <>Returned
    /\ [](Returned => (Len(outcome) = Len(zones_needed)
                          /\ i = Len(zones_needed) + 1))
    /\ [][(pc = "place" /\ pc' = "place") =>
             (i' = i + 1 /\ outcome' = Append(outcome, outcome'[i]))]_vars

\* A result in which every demand failed, in a garage whose walls are no
\* longer than a storage section (the scans cover no candidate).
C21_Witness ==
    /\ Returned
    /\ garage.width <= 48 /\ garage.depth <= 48
    /\ Len(zones_needed) >= 3
    /\ \A k \in 1..Len(outcome) : ~outcome[k]

(***************************************************************************)
(* C22. Swapped footprint on side walls: a workbench or wall-storage zone  *)
(* placed on the east or west wall is recorded with width = demand depth   *)
(* and depth = demand width, the rectangle that passed the bounds and      *)
(* collision check.                                                        *)
(***************************************************************************)
C22_SwappedFootprint ==
    Planned =>
        \A m \in 1..Len(placed_zones) :
            LET zone == placed_zones[m]
                demand == zones_needed[ProcessedWith(TRUE)[m]]
            IN  ( /\ zone.zone_type \in {WORKBENCH, WALL_STORAGE}
                  /\ zone.wall \in {"E", "W"} )
                   => /\ zone.width = demand.depth
                      /\ zone.depth = demand.width

(***************************************************************************)
(* C23. Wall-storage completeness: a wall-storage demand fails only if no  *)
(* in-bounds, collision-free candidate exists on any of the walls N, E, W  *)
(* at a start coordinate that is a multiple of 12 from the wall's origin;  *)
(* in particular a section that fits exactly at the last coordinate of a   *)
(* wall (start = wall length - section length) is placed.                  *)
(***************************************************************************)
\* Whether the section of demand k had a free place at offset t of the wall
\* when k was processed.
FreeForStorage(wall, t, k) ==
    LET along == zones_needed[k].width
        out == zones_needed[k].depth
        r == CASE wall = "N" -> [x |-> t, y |-> 0, width |-> along, depth |-> out]
               [] wall = "E" -> [x |-> garage.width - out, y |-> t,
                                 width |-> out, depth |-> along]
               [] wall = "W" -> [x |-> 0, y |-> t, width |-> out, depth |-> along]
    IN  /\ 0 <= r.x /\ 0 <= r.y
        /\ r.x + r.width <= garage.width
        /\ r.y + r.depth <= garage.depth
        /\ \A c \in 1..Len(Constraints) : ~Overlap(r, Constraints[c])
        /\ \A z \in 1..PlacedBefore(k) : ~Overlap(r, placed_zones[z])

C23_StorageCompleteness ==
    Planned =>
        \A k \in 1..Len(outcome) :
            (zones_needed[k].type = WALL_STORAGE /\ ~outcome[k]) =>
                \A wall \in {"N", "E", "W"} :
                    LET length == IF wall = "N" THEN garage.width
                                  ELSE garage.depth
                    IN  \A t \in 0..(length - zones_needed[k].width) :
                            t % 12 = 0 => ~FreeForStorage(wall, t, k)

(***************************************************************************)
(* C24. Wall choice: the walls N, E, W are scanned in ascending order of   *)
(* the number of wall-storage sections already on them (ties in the order  *)
(* N, E, W); the section goes to the first wall that has a clear candidate *)
(* at a multiple of 24, at the smallest such coordinate; only if no wall   *)
(* has one is the same scan, with the walls in the same ascending-count    *)
(* order, repeated at multiples of 12.                                     *)
(***************************************************************************)
\* The number of wall-storage sections on a wall when demand k was processed.
SectionsOn(wall, k) ==
    Cardinality({z \in 1..PlacedBefore(k) :
                    /\ placed_zones[z].zone_type = WALL_STORAGE
                    /\ placed_zones[z].wall = wall})

\* Whether wall a is scanned before wall b for demand k.
ScannedBefore(a, b, k) ==
    LET at == [w \in {"N", "E", "W"} |->
                  CASE w = "N" -> 1 [] w = "E" -> 2 [] w = "W" -> 3]
    IN  \/ SectionsOn(a, k) < SectionsOn(b, k)
        \/ SectionsOn(a, k) = SectionsOn(b, k) /\ at[a] < at[b]

\* The free offsets the scan of a wall visits for demand k at a step.
FreeOffsets(wall, step, k) ==
    LET length == IF wall = "N" THEN garage.width ELSE garage.depth
    IN  {t \in 0..(length - zones_needed[k].width - 1) :
            t % step = 0 /\ FreeForStorage(wall, t, k)}

\* Whether <<wall, t>> is the choice of the scan in count order at a step.
ChosenAt(wall, t, step, k) ==
    /\ t \in FreeOffsets(wall, step, k)
    /\ \A u \in FreeOffsets(wall, step, k) : t <= u
    /\ \A other \in {"N", "E", "W"} :
          ScannedBefore(other, wall, k) => FreeOffsets(other, step, k) = {}

C24_WallChoice ==
    Planned =>
        \A k \in 1..Len(outcome) :
            (zones_needed[k].type = WALL_STORAGE /\ outcome[k]) =>
                LET zone == placed_zones[PlacedBefore(k) + 1]
                    t == IF zone.wall = "N" THEN zone.x ELSE zone.y
                    none24 == \A w \in {"N", "E", "W"} :
                                  FreeOffsets(w, 24, k) = {}
                IN  IF none24 THEN ChosenAt(zone.wall, t, 12, k)
                    ELSE ChosenAt(zone.wall, t, 24, k)

(***************************************************************************)
(* C25. No alternative for later vehicles: with two or more must-fit       *)
(* vehicles only the vehicle with index 0 can be placed at the walkway     *)
(* offset x = 30; a vehicle with index >= 1 has exactly one candidate,     *)
(* immediately east of the previously placed vehicle plus 12, and a        *)
(* warning names it whenever that candidate is unavailable, including when *)
(* vehicle 0 itself could not be placed.                                   *)
(***************************************************************************)
\* The vehicle zones placed before demand k was processed.
VehiclesBefore(k) ==
    SelectSeq(SubSeq(placed_zones, 1, PlacedBefore(k)), IsVehicle)

C25_NoAlternative ==
    (Planned /\ Len(MustFitVehicles) >= 2) =>
        \A k \in 1..Len(outcome) :
            (zones_needed[k].type = VEHICLE /\ zones_needed[k].vehicle_index >= 1) =>
                LET earlier == VehiclesBefore(k)
                    last == earlier[Len(earlier)]
                    x == last.x + last.width + 12
                    y == garage.depth - zones_needed[k].depth
                IN  IF earlier # <<>> /\ FreeForVehicle(x, y, k)
                    THEN /\ outcome[k]
                         /\ placed_zones[PlacedBefore(k) + 1].x = x
                         /\ placed_zones[PlacedBefore(k) + 1].y = y
                         /\ placed_zones[PlacedBefore(k) + 1].x # 30
                    ELSE /\ ~outcome[k]
                         /\ Warnings[FailedBefore(k) + 1] = zones_needed[k].name

(***************************************************************************)
(* C26. West overhead platform stops above the vehicle: whenever the       *)
(* overhead pass adds the 'Overhead Storage - West' platform, it starts at *)
(* y = 72 and its south edge (y + depth) is at or north of the first       *)
(* placed vehicle's north edge (its y).                                    *)
(***************************************************************************)
C26_WestPlatformAboveVehicle ==
    pc \in {"score", "done"} =>
        \A k \in 1..Len(Zones) :
            ( /\ Zones[k].zone_type = OVERHEAD_STORAGE
              /\ Zones[k].name = Name("Overhead Storage - West", 0) )
               => /\ PlacedVehicles # <<>>
                  /\ Zones[k].y = 72
                  /\ Zones[k].y + Zones[k].depth <= PlacedVehicles[1].y

(***************************************************************************)
(* C27. Garage-door pull-in clearance on any wall: for a garage-door       *)
(* feature on any of the four walls (N, E, S or W) the generated           *)
(* constraint extends 60 inward from that wall (not the table clearance of *)
(* 36) and starts at that wall.                                            *)
(***************************************************************************)
\* The features of a wall.
WallFeatures(wall) ==
    CASE wall = "N" -> garage.north_features
      [] wall = "E" -> garage.east_features
      [] wall = "S" -> garage.south_features
      [] wall = "W" -> garage.west_features

\* The constraints of a wall, in order.
ConstraintsOn(wall) ==
    LET On(c) == c.wall = wall
    IN  SelectSeq(Constraints, On)

C27_PullInAnyWall ==
    pc # "start" =>
        \A wall \in {"N", "E", "S", "W"} :
            /\ Len(ConstraintsOn(wall)) = Len(WallFeatures(wall))
            /\ \A k \in 1..Len(WallFeatures(wall)) :
                  ( /\ "type" \in DOMAIN WallFeatures(wall)[k]
                    /\ WallFeatures(wall)[k].type = "garage_door" )
                     => LET c == ConstraintsOn(wall)[k]
                            Fit(n) == IF n > 0 THEN n ELSE 0
                        IN  CASE wall = "N" -> c.depth = 60 /\ c.y = 0
                              [] wall = "S" ->
                                    /\ c.depth = 60
                                    /\ c.y = Fit(garage.depth - 60)
                              [] wall = "E" ->
                                    /\ c.width = 60
                                    /\ c.x = Fit(garage.width - 60)
                              [] wall = "W" -> c.width = 60 /\ c.x = 0

(***************************************************************************)
(* C28. Constraint geometry: generate_constraints returns exactly one      *)
(* Constraint per wall feature (none for floor features), in the order     *)
(* north, east, south, west and in feature order within a wall; for a      *)
(* feature that is not a garage door, with clearance c (the table value of *)
(* its type, 24 for an unknown type), it is N: (pos - w/2, 0, w, c),       *)
(* S: (pos - w/2, depth - c, w, c), E: (width - c, pos - w/2, c, w),       *)
(* W: (0, pos - w/2, c, w), a negative x or y clamped to 0; it never       *)
(* fails: the step from the start always yields the constraints.           *)
(***************************************************************************)
\* The wall features in the order north, east, south, west, each with its wall.
TaggedFeatures ==
    LET Tagged(wall) ==
            [k \in 1..Len(WallFeatures(wall)) |->
                [wall |-> wall, feature |-> WallFeatures(wall)[k]]]
    IN  Tagged("N") \o Tagged("E") \o Tagged("S") \o Tagged("W")

\* Whether a feature is a garage door, by its type or by its name.
IsGarageDoor(feature) ==
    \/ Contains(Lower(Get(feature, "type", "")), "garage_door")
    \/ Contains(Lower(Get(feature, "name", "Unknown")), "garage door")

C28_Geometry ==
    pc # "start" =>
        /\ Len(Constraints) = Len(TaggedFeatures)
        /\ \A k \in 1..Len(TaggedFeatures) :
              LET wall == TaggedFeatures[k].wall
                  feature == TaggedFeatures[k].feature
                  pos == IF "position" \in DOMAIN feature
                         THEN feature.position ELSE 0
                  w == IF "width" \in DOMAIN feature THEN feature.width ELSE 36
                  type == IF "type" \in DOMAIN feature
                          THEN Lower(feature.type) ELSE ""
                  c == IF type \in DOMAIN CLEARANCES THEN CLEARANCES[type]
                       ELSE 24
                  Fit(n) == IF n < 0 THEN 0 ELSE n
                  rect == CASE wall = "N" -> <<pos - w \div 2, 0, w, c>>
                            [] wall = "S" ->
                                  <<pos - w \div 2, garage.depth - c, w, c>>
                            [] wall = "E" ->
                                  <<garage.width - c, pos - w \div 2, c, w>>
                            [] wall = "W" -> <<0, pos - w \div 2, c, w>>
              IN  /\ Constraints[k].wall = wall
                  /\ Constraints[k].constraint_type = type
                  /\ ~IsGarageDoor(feature) =>
                        /\ Constraints[k].x = Fit(rect[1])
                        /\ Constraints[k].y = Fit(rect[2])
                        /\ Constraints[k].width = rect[3]
                        /\ Constraints[k].depth = rect[4]

\* A garage with a floor feature, a feature of unknown type and features
\* on three walls, after constraint generation.
C28_Witness ==
    /\ pc # "start"
    /\ garage.floor_features # <<>>
    /\ Len(Constraints) = 4
    /\ \E k \in 1..4 : Constraints[k].constraint_type = ""
    /\ \E k \in 1..4 : ~IsGarageDoor(TaggedFeatures[k].feature)

(***************************************************************************)
(* C29. Workbench wall preference: the workbench is tried on the walls in  *)
(* the order E, N, W when an east-wall feature is an electrical panel (its *)
(* name says "electrical" or "panel"), otherwise N, E, W, each at one      *)
(* fixed position (N: x = 30, y = 0; E: x = garage.width - demand depth,   *)
(* y = 30; W: x = 0, y = 30); it is placed on the first wall in that order *)
(* whose rectangle is in bounds and overlaps no constraint and no placed   *)
(* zone, and it fails with a warning if none of the three qualifies.       *)
(***************************************************************************)
\* Whether an east-wall feature is named as an electrical panel.
PanelOnEast ==
    \E f \in 1..Len(garage.east_features) :
        /\ "name" \in DOMAIN garage.east_features[f]
        /\ \/ Contains(Lower(garage.east_features[f].name), "electrical")
           \/ Contains(Lower(garage.east_features[f].name), "panel")

\* The fixed rectangle of the workbench demand k on a wall.
WorkbenchSpot(wall, k) ==
    LET along == zones_needed[k].width
        out == zones_needed[k].depth
    IN  CASE wall = "N" -> [x |-> 30, y |-> 0, width |-> along, depth |-> out]
          [] wall = "E" -> [x |-> garage.width - out, y |-> 30,
                            width |-> out, depth |-> along]
          [] wall = "W" -> [x |-> 0, y |-> 30, width |-> out, depth |-> along]

\* Whether the workbench demand k had its spot on a wall free when processed.
FreeForWorkbench(wall, k) ==
    LET r == WorkbenchSpot(wall, k)
    IN  /\ 0 <= r.x /\ 0 <= r.y
        /\ r.x + r.width <= garage.width
        /\ r.y + r.depth <= garage.depth
        /\ \A c \in 1..Len(Constraints) : ~Overlap(r, Constraints[c])
        /\ \A z \in 1..PlacedBefore(k) : ~Overlap(r, placed_zones[z])

C29_WorkbenchWall ==
    Planned =>
        \A k \in 1..Len(outcome) :
            zones_needed[k].type = WORKBENCH =>
                LET order == IF PanelOnEast THEN <<"E", "N", "W">>
                             ELSE <<"N", "E", "W">>
                    free == {m \in 1..3 : FreeForWorkbench(order[m], k)}
                IN  IF free = {}
                    THEN /\ ~outcome[k]
                         /\ Warnings[FailedBefore(k) + 1] = zones_needed[k].name
                    ELSE /\ outcome[k]
                         /\ LET zone == placed_zones[PlacedBefore(k) + 1]
                                m == CHOOSE m \in free : \A n \in free : m <= n
                            IN  /\ zone.zone_type = WORKBENCH
                                /\ zone.wall = order[m]
                                /\ zone.x = WorkbenchSpot(order[m], k).x
                                /\ zone.y = WorkbenchSpot(order[m], k).y

\* A workbench on the east wall of a garage with an electrical panel there,
\* the north-wall spot being free as well.
C29_Witness ==
    /\ Returned
    /\ PanelOnEast
    /\ \E k \in 1..Len(outcome) :
          /\ zones_needed[k].type = WORKBENCH
          /\ outcome[k]
          /\ placed_zones[PlacedBefore(k) + 1].wall = "E"
          /\ FreeForWorkbench("N", k)

(***************************************************************************)
(* C30. Overhead acceptance and frame: in the overhead pass each candidate *)
(* platform is added to the result iff its width > 36 and its depth > 36,  *)
(* with no collision test against the placed zones; each added platform    *)
(* appends exactly one reasoning string, a rejected candidate appends      *)
(* nothing, and the pass leaves the warnings, the constraints and all      *)
(* zones placed before it unchanged.                                       *)
(***************************************************************************)
\* The candidate platforms of the overhead pass.
OverheadCandidates ==
    IF OverheadPreferred /\ garage.ceiling_height >= 96
    THEN overhead_locations(garage, placed_zones)
    ELSE <<>>

C30_OverheadFrame ==
    [][(pc = "place" /\ pc' = "score") =>
          LET Big(loc) == loc.width > 36 /\ loc.depth > 36
              added == SelectSeq(OverheadCandidates, Big)
              before == Len(recommendation.zones)
              said == Len(recommendation.reasoning)
          IN  /\ Len(recommendation'.zones) = before + Len(added)
              /\ SubSeq(recommendation'.zones, 1, before) = recommendation.zones
              /\ \A k \in 1..Len(added) :
                    LET zone == recommendation'.zones[before + k]
                    IN  /\ zone.zone_type = OVERHEAD_STORAGE
                        /\ zone.name = added[k].name
                        /\ zone.x = added[k].x /\ zone.y = added[k].y
                        /\ zone.width = added[k].width
                        /\ zone.depth = added[k].depth
              /\ Len(recommendation'.reasoning) = said + Len(added)
              /\ SubSeq(recommendation'.reasoning, 1, said)
                    = recommendation.reasoning
              /\ \A k \in 1..Len(added) :
                    recommendation'.reasoning[said + k].name = added[k].name
              /\ recommendation'.warnings = recommendation.warnings
              /\ recommendation'.constraints = recommendation.constraints
              /\ placed_zones' = placed_zones]_vars

\* A result with three platforms, one of them over a placed zone, and with
\* a warning and a constraint.
C30_Witness ==
    /\ Returned
    /\ Len(Zones) = Len(placed_zones) + 3
    /\ \E k \in (Len(placed_zones) + 1)..Len(Zones) :
          \E z \in 1..Len(placed_zones) : Overlap(Zones[k], Zones[z])
    /\ Warnings # <<>>
    /\ Constraints # <<>>

====
